---- MODULE Spec2Model ----
(***************************************************************************)
(* Redis cache provider (aahframe.work/cache/provider/redis).              *)
(*                                                                         *)
(* One Provider holds the redis client and the configuration of the cache  *)
(* created last (p.cfg); every redisCache holds its own keyPrefix and a    *)
(* pointer to the provider.  Callers run Get, GetOrPut, Put, Delete,       *)
(* Exists, Flush and Name concurrently; every store command is one atomic  *)
(* step of the redis server, and the steps of one call interleave with the *)
(* steps of the other callers, with Create, with gob.Register and with the *)
(* passing of time (Tick), which expires keys.                             *)
(***************************************************************************)
EXTENDS Integers, Sequences, FiniteSets, TLC

VARIABLES
    prov,       \* Provider: how far Init got, and with what configuration
    cfg,        \* Provider.cfg: the cache.Config handed to the last Create
    caches,     \* the redisCache values made by Create, in creation order
    configs,    \* history: the cache.Config each redisCache was created with
    registered, \* gob's registry of concrete types for interface values
    store,      \* the redis database: key -> payload, remaining ttl (+ history)
    evicted,    \* history: keys that left the store by expiry since their last SET
    written,    \* history: the (instance, key) pairs put and not deleted or flushed since
    pool,       \* bufPool: the buffers lying in the sync.Pool
    bufs,       \* contents of every bytes.Buffer
    th,         \* the callers' frames: operation, arguments, locals, result
    scope       \* the inputs the callers draw from (fixed by Init)

vars == <<prov, cfg, caches, configs, registered, store, evicted, written, pool, bufs, th, scope>>

----------------------------------------------------------------------------
(* Bounds *)

\* The longest ttl handed to Put, in ticks of the store's clock
\* (time.Duration in whole seconds).
MaxTTL == 2

----------------------------------------------------------------------------
(* Values and the gob codec *)

\* concrete types behind an interface{} value
TInt == 1       \* int: a basic type, registered by gob itself
TSample == 2    \* a struct type: must be handed to gob.Register first

Nil == [T |-> 0, x |-> 0]
IntV(n) == [T |-> TInt, x |-> n]
SampleV(n) == [T |-> TSample, x |-> n]

\* cache.EvictionMode
Fixed == "fixed"
Slide == "slide"

\* the wire-type message gob writes ahead of the first value of a stream
WireType == 9

\* type entry struct { D time.Duration; V interface{} }
Entry(d, v) == [D |-> d, V |-> v]

\* a gob that encodes values of every type
EncodableAny(v, reg) == TRUE

\* gob can encode an interface value only when its concrete type is registered
Encodable(v, reg) == v = Nil \/ v.T \in reg

\* EncodeValue with the delta of field V counted from the start of the struct
\* even when field D was written
EncodeValueStaleDelta(e) ==
    (IF e.D # 0 THEN <<1, e.D>> ELSE <<>>)
    \o (IF e.V # Nil THEN <<2, e.V.T, e.V.x>> ELSE <<>>)
    \o <<0>>

\* gob's struct value: (field delta, field)*, 0; zero-valued fields are left
\* out, field D is number 0 and field V is number 1, numbering starts at -1
EncodeValue(e) ==
    (IF e.D # 0 THEN <<1, e.D>> ELSE <<>>)
    \o (IF e.V # Nil THEN <<(IF e.D # 0 THEN 1 ELSE 2), e.V.T, e.V.x>> ELSE <<>>)
    \o <<0>>

\* what enc.Encode(e) writes to the buffer: the wire type of entry first and,
\* unless the value fails to encode, the value
Encode(e, reg) ==
    IF Encodable(e.V, reg) THEN <<WireType>> \o EncodeValue(e) ELSE <<WireType>>

DecodeFail == [ok |-> FALSE, e |-> Entry(0, Nil)]

\* the fields of one struct value, read from position pos of b
RECURSIVE DecodeFields(_, _, _, _, _)
DecodeFields(b, pos, fieldnum, e, reg) ==
    IF pos > Len(b) THEN DecodeFail
    ELSE IF b[pos] = 0 THEN [ok |-> TRUE, e |-> e]
    ELSE LET f == fieldnum + b[pos] IN
         IF f = 0 /\ pos + 1 <= Len(b)
         THEN DecodeFields(b, pos + 2, f, [e EXCEPT !.D = b[pos + 1]], reg)
         ELSE IF f = 1 /\ pos + 2 <= Len(b) /\ b[pos + 1] \in reg
         THEN DecodeFields(b, pos + 3, f,
                           [e EXCEPT !.V = [T |-> b[pos + 1], x |-> b[pos + 2]]], reg)
         ELSE DecodeFail

\* gob.NewDecoder(bytes.NewBuffer(v)).Decode(&e): the first value of the stream
Decode(b, reg) ==
    IF Len(b) < 2 \/ b[1] # WireType THEN DecodeFail
    ELSE DecodeFields(b, 2, -1, Entry(0, Nil), reg)

----------------------------------------------------------------------------
(* The redis database *)

NoGhost == [gc |-> 0, gk |-> "", gv |-> Nil, gd |-> 0]

\* a function without key k
Without(s, k) == [x \in DOMAIN s \ {k} |-> s[x]]

\* SET key val [EX d]: d = 0 stores the key without expiration
RedisSet(s, key, val, d, g) ==
    [x \in DOMAIN s \cup {key} |->
        IF x = key
        THEN [val |-> val, ttl |-> d, armed |-> d,
              gc |-> g.gc, gk |-> g.gk, gv |-> g.gv, gd |-> g.gd]
        ELSE s[x]]

\* EXPIRE key d: a timeout that is not positive deletes the key
RedisExpire(s, key, d) ==
    IF key \notin DOMAIN s THEN s
    ELSE IF d <= 0 THEN Without(s, key)
    ELSE [s EXCEPT ![key].ttl = d, ![key].armed = d]

\* the error of a store command: none ("nil"), the client's redis.Nil
\* ("redis: nil", its answer for a key that is not there), or any other
RedisNil == "redis: nil"
IOError == "io"

\* EXISTS key (result == 1)
RedisExists(s, key) == key \in DOMAIN s

\* DEL key
RedisDel(s, key) == Without(s, key)

\* one tick of the server's clock: keys whose ttl runs out are removed
Expiring(s) == {x \in DOMAIN s : s[x].ttl = 1}
Dec(n) == IF n > 0 THEN n - 1 ELSE 0
RedisTick(s) ==
    [x \in DOMAIN s \ Expiring(s) |->
        [s[x] EXCEPT !.ttl = Dec(@)]]

----------------------------------------------------------------------------
(* Callers *)

Callers == DOMAIN th
Buffers == DOMAIN bufs

NoCfg == [Name |-> "", EvictionMode |-> Fixed]
NoEntry == Entry(0, Nil)

\* the frame of a caller that runs no operation
Idle ==
    [pc |-> "idle", op |-> "none", c |-> 0, k |-> "", v |-> Nil, d |-> 0,
     buf |-> 0, e |-> NoEntry, ret |-> Nil, name |-> "", ok |-> FALSE,
     err |-> "nil",
     \* history of the call
     canEnc |-> TRUE,    \* gob could encode v when the call was made
     found |-> FALSE,    \* GET (or DEL) found the key; FLUSHDB found
                         \* entries of other instances
     hit |-> FALSE,      \* and its payload decoded
     seen |-> NoGhost,   \* who wrote the entry GET found
     sf |-> FALSE,       \* a store command of this call failed
     applied |-> "none", \* the eviction mode Get acted on
     wrote |-> FALSE]    \* the call's SET reached the store

Call(op, c, k, v, d) ==
    [Idle EXCEPT !.op = op, !.c = c, !.k = k, !.v = v, !.d = d,
                 !.canEnc = Encodable(v, registered)]

\* StoreKey with the prefix taken from the provider's current configuration
StoreKeyOfProvider(c, k) == cfg.Name \o "-" \o k

\* r.keyPrefix + k
StoreKey(c, k) == caches[c].keyPrefix \o k

Held(b) == \E t \in Callers : th[t].buf = b

GhostOf(ent) == [gc |-> ent.gc, gk |-> ent.gk, gv |-> ent.gv, gd |-> ent.gd]

----------------------------------------------------------------------------
(* Provider *)

\* strings of the configuration, letter by letter
Redis == <<"r", "e", "d", "i", "s">>

ToLowerChar(ch) ==
    CASE ch = "R" -> "r" [] ch = "E" -> "e" [] ch = "D" -> "d"
      [] ch = "I" -> "i" [] ch = "S" -> "s" [] ch = "M" -> "m"
      [] ch = "Y" -> "y" [] OTHER -> ch

\* a comparison of the configured string as it is written
ToLowerNone(s) == s

\* strings.ToLower
ToLower(s) == [i \in 1..Len(s) |-> ToLowerChar(s[i])]

\* a Provider before Init, and one that Init has connected
\* (pings: the pings sent; pong: one was answered; err: what Init returned)
NewProvider ==
    [state |-> "new", provider |-> <<>>, pings |-> 0, pong |-> FALSE,
     err |-> "nil"]
ReadyProvider ==
    [state |-> "ready", provider |-> Redis, pings |-> 1, pong |-> TRUE,
     err |-> "nil"]

\* func (p *Provider) Init(providerName, appCfg, logger) error, called once
\* by the manager's InitProviders; s is cache.<name>.provider ("" when the
\* key is missing), pingErr the outcome of client.Ping()
ProviderInit(s, pingErr) ==
    /\ prov.state = "new"
    /\ IF ToLower(s) # Redis
       THEN prov' = [prov EXCEPT !.state = "failed", !.provider = s,
                                 !.err = "provider"]
       ELSE prov' = [prov EXCEPT !.state = IF pingErr = "nil" THEN "ready"
                                          ELSE "failed",
                                 !.provider = s,
                                 !.pings = @ + 1,
                                 !.pong = (pingErr = "nil"),
                                 !.err = IF pingErr = "nil" THEN "nil"
                                        ELSE "ping"]
    /\ UNCHANGED <<cfg, caches, configs, registered, store, evicted, written,
                   pool, bufs, th, scope>>

\* func (p *Provider) Create(cfg *cache.Config)
Create(name, mode) ==
    /\ cfg' = [Name |-> name, EvictionMode |-> mode]
    /\ caches' = Append(caches, [keyPrefix |-> cfg'.Name \o "-"])
    /\ configs' = Append(configs, cfg')
    /\ UNCHANGED <<prov, registered, store, evicted, written, pool, bufs, th, scope>>

\* gob.Register(sample{}), called by the application
Register ==
    /\ TSample \notin registered
    /\ registered' = registered \cup {TSample}
    /\ UNCHANGED <<prov, cfg, caches, configs, store, evicted, written, pool, bufs, th, scope>>

----------------------------------------------------------------------------
(* redisCache.Get, first half: GET and decode.  Called by Get and GetOrPut *)

\* GetOrPut of part_000:337-346 and the older GetOrPut of redis.go:113-120
GetOrPuts == {"GetOrPut", "GetOrPutV0"}

\* AfterMiss with Get handing its failure to the caller
AfterMissError(f) ==
    IF f.op \in GetOrPuts THEN [f EXCEPT !.pc = "acquire"]
    ELSE [f EXCEPT !.pc = "done", !.ret = Nil,
                   !.err = IF f.sf \/ f.found THEN "store" ELSE "nil"]

\* where the caller goes when Get returns nil
AfterMiss(f) ==
    IF f.op \in GetOrPuts THEN [f EXCEPT !.pc = "acquire"]
    ELSE [f EXCEPT !.pc = "done", !.ret = Nil]

GetRead(t, op, c, k, v, d) ==
    /\ th[t].pc = "idle"
    /\ c \in 1..Len(caches)
    /\ LET sk == StoreKey(c, k)
           f == Call(op, c, k, v, d)
       IN \E fail \in BOOLEAN :
            IF fail
            THEN th' = [th EXCEPT ![t] = AfterMiss([f EXCEPT !.sf = TRUE])]
            ELSE IF sk \notin DOMAIN store
            THEN th' = [th EXCEPT ![t] = AfterMiss(f)]
            ELSE LET dec == Decode(store[sk].val, registered)
                     g == [f EXCEPT !.found = TRUE, !.seen = GhostOf(store[sk])]
                 IN IF ~dec.ok
                    THEN th' = [th EXCEPT ![t] = AfterMiss(g)]
                    ELSE th' = [th EXCEPT ![t] =
                                   [g EXCEPT !.pc = "expire", !.e = dec.e,
                                             !.hit = TRUE]]
    /\ UNCHANGED <<prov, cfg, caches, configs, registered, store, evicted, written, pool, bufs, scope>>

\* func (r *redisCache) Get(k string) interface{}
Get(t, c, k) == GetRead(t, "Get", c, k, Nil, 0)

\* func (r *redisCache) GetOrPut(k, v, d): ev := r.Get(k)
GetOrPut(t, c, k, v, d) == GetRead(t, "GetOrPut", c, k, v, d)

\* the eviction mode Get consults: r.p.cfg.EvictionMode
ModeOf(c) == cfg.EvictionMode

\* AfterHit with GetOrPut putting whatever Get returned
AfterHitAlwaysPut(f) ==
    IF f.op \in GetOrPuts THEN [f EXCEPT !.pc = "acquire"]
    ELSE [f EXCEPT !.pc = "done", !.ret = f.e.V]

\* where the caller goes when Get returns e.V
AfterHit(f) ==
    IF f.op \in GetOrPuts /\ f.e.V = Nil THEN [f EXCEPT !.pc = "acquire"]
    ELSE [f EXCEPT !.pc = "done", !.ret = f.e.V]

\* Get, second half: the refresh of the ttl in slide mode, return e.V
GetExpire(t) ==
    /\ th[t].pc = "expire"
    /\ LET f == th[t]
           sk == StoreKey(f.c, f.k)
           m == ModeOf(f.c)
       IN IF m = Slide
          THEN \E fail \in BOOLEAN :
                 /\ store' = IF fail THEN store ELSE RedisExpire(store, sk, f.e.D)
                 /\ evicted' = evicted \cup (DOMAIN store \ DOMAIN store')
                 /\ th' = [th EXCEPT ![t] =
                              AfterHit([f EXCEPT !.applied = m,
                                                 !.sf = f.sf \/ fail])]
          ELSE /\ th' = [th EXCEPT ![t] = AfterHit([f EXCEPT !.applied = m])]
               /\ UNCHANGED <<store, evicted, written>>
    /\ UNCHANGED <<prov, cfg, caches, configs, registered, written, pool, bufs, scope>>

----------------------------------------------------------------------------
(* redisCache.Put *)

\* acquireBuffer handing out whatever buffer it comes by, as it is
acquireBufferStale(b, fresh) == [pool |-> pool \ {b}, bufs |-> bufs]

\* acquireBuffer with a pool that hands a buffer out and keeps it
acquireBufferKept(b, fresh) ==
    [pool |-> pool,
     bufs |-> IF fresh \/ b \notin pool THEN [bufs EXCEPT ![b] = <<>>] ELSE bufs]

\* bufPool.Get(): buffer b taken out of the pool, as it lies there, or (the
\* pool is empty, or has dropped its buffers, as it may at any time) a new,
\* empty one.  The result is the pool and the buffers after the call.
acquireBuffer(b, fresh) ==
    [pool |-> pool \ {b},
     bufs |-> IF fresh \/ b \notin pool THEN [bufs EXCEPT ![b] = <<>>] ELSE bufs]

\* the buffers a call of acquireBuffer may return: those lying in the pool
\* and those no caller holds
Acquirable == pool \cup {b \in Buffers : ~Held(b)}

PutAcquire(t, f) ==
    \E b \in Acquirable, fresh \in BOOLEAN :
        LET a == acquireBuffer(b, fresh) IN
        /\ pool' = a.pool
        /\ bufs' = a.bufs
        /\ th' = [th EXCEPT ![t] = [f EXCEPT !.pc = "encode", !.buf = b]]

\* func (r *redisCache) Put(k, v, d): e := entry{D: d, V: v}; buf := acquireBuffer()
Put(t, c, k, v, d) ==
    /\ th[t].pc = "idle"
    /\ c \in 1..Len(caches)
    /\ PutAcquire(t, Call("Put", c, k, v, d))
    /\ UNCHANGED <<prov, cfg, caches, configs, registered, store, evicted, written, scope>>

\* func (r *redisCache) GetOrPut(k, v, d) interface{} of redis.go: ev := r.Get(k)
GetOrPutV0(t, c, k, v, d) == GetRead(t, "GetOrPutV0", c, k, v, d)

\* Put returns err: to its caller, or to GetOrPut, which returns (nil, err)
\* or (v, nil); the GetOrPut of redis.go drops err and returns v
PutReturn(f, err) ==
    LET g == [f EXCEPT !.pc = "done", !.buf = 0] IN
    IF f.op = "GetOrPutV0" THEN [g EXCEPT !.err = "nil", !.ret = f.v]
    ELSE IF f.op = "GetOrPut"
    THEN [g EXCEPT !.err = err, !.ret = IF err = "nil" THEN f.v ELSE Nil]
    ELSE [g EXCEPT !.err = err, !.ret = Nil]

\* GetOrPut: if ev == nil { r.Put(k, v, d) ... }
GetOrPutPut(t) ==
    /\ th[t].pc = "acquire"
    /\ PutAcquire(t, th[t])
    /\ UNCHANGED <<prov, cfg, caches, configs, registered, store, evicted, written, scope>>

\* enc.Encode(e); on an error Put returns and the buffer is left to the
\* garbage collector
PutEncode(t) ==
    /\ th[t].pc = "encode"
    /\ LET f == th[t]
           e == Entry(f.d, f.v)
       IN /\ bufs' = [bufs EXCEPT ![f.buf] = @ \o Encode(e, registered)]
          /\ th' = [th EXCEPT ![t] =
                       IF Encodable(e.V, registered)
                       THEN [f EXCEPT !.pc = "set"]
                       ELSE PutReturn(f, "encode")]
    /\ UNCHANGED <<prov, cfg, caches, configs, registered, store, evicted, written, pool, scope>>

\* ClientSet as SET ... NX: the write takes place only on an absent key
ClientSetIfAbsent(s, key, val, d, g) ==
    IF key \in DOMAIN s THEN s ELSE RedisSet(s, key, val, d, g)

\* cmd := r.p.client.Set(r.keyPrefix+k, buf.Bytes(), d)
ClientSet(s, key, val, d, g) == RedisSet(s, key, val, d, g)

PutSet(t) ==
    /\ th[t].pc = "set"
    /\ LET f == th[t]
           sk == StoreKey(f.c, f.k)
           g == [gc |-> f.c, gk |-> f.k, gv |-> f.v, gd |-> f.d]
       IN \E fail \in BOOLEAN :
            IF fail
            THEN /\ th' = [th EXCEPT ![t] =
                              [f EXCEPT !.pc = "release", !.err = "store",
                                        !.sf = TRUE]]
                 /\ UNCHANGED <<store, evicted, written>>
            ELSE /\ store' = ClientSet(store, sk, bufs[f.buf], f.d, g)
                 /\ evicted' = evicted \ {sk}
                 /\ written' = written \cup {<<f.c, f.k>>}
                 /\ th' = [th EXCEPT ![t] =
                              [f EXCEPT !.pc = "release", !.wrote = TRUE]]
    /\ UNCHANGED <<prov, cfg, caches, configs, registered, pool, bufs, scope>>

\* releaseBuffer without b.Reset()
releaseBufferNoReset(b) == [pool |-> pool \cup {b}, bufs |-> bufs]

\* func releaseBuffer(b *bytes.Buffer): b.Reset(); bufPool.Put(b)
releaseBuffer(b) ==
    [pool |-> pool \cup {b}, bufs |-> [bufs EXCEPT ![b] = <<>>]]

\* releaseBuffer(buf); return cmd.Err()   (GetOrPut: return v, nil)
PutRelease(t) ==
    /\ th[t].pc = "release"
    /\ LET f == th[t]
           r == releaseBuffer(f.buf)
       IN /\ pool' = r.pool
          /\ bufs' = r.bufs
          /\ th' = [th EXCEPT ![t] = PutReturn(f, f.err)]
    /\ UNCHANGED <<prov, cfg, caches, configs, registered, store, evicted, written, scope>>

----------------------------------------------------------------------------
(* Delete, Exists, Flush, Name *)

\* notacacheMiss letting every error through
notacacheMissNone(err) == err

\* func notacacheMiss(err error) error
notacacheMiss(err) == IF err # "nil" /\ err = RedisNil THEN "nil" ELSE err

\* the errors DEL key may come back with
DelErrors(s, key) ==
    {"nil", IOError} \cup (IF key \in DOMAIN s THEN {} ELSE {RedisNil})

\* func (r *redisCache) Delete(k string) error
Delete(t, c, k) ==
    /\ th[t].pc = "idle"
    /\ c \in 1..Len(caches)
    /\ LET sk == StoreKey(c, k)
           f == [Call("Delete", c, k, Nil, 0) EXCEPT
                    !.pc = "done", !.found = (sk \in DOMAIN store)]
       IN \E err \in DelErrors(store, sk) :
            IF notacacheMiss(err) # "nil"
            THEN /\ th' = [th EXCEPT ![t] =
                              [f EXCEPT !.err = "store",
                                        !.sf = (err # RedisNil)]]
                 /\ UNCHANGED <<store, evicted, written>>
            ELSE /\ store' = IF err = "nil" THEN RedisDel(store, sk) ELSE store
                 /\ evicted' = evicted \ {sk}
                 /\ written' = written \ {<<c, k>>}
                 /\ th' = [th EXCEPT ![t] = f]
    /\ UNCHANGED <<prov, cfg, caches, configs, registered, pool, bufs, scope>>

\* func (r *redisCache) Delete(k string) of redis.go: the result of DEL is
\* dropped
DeleteV0(t, c, k) ==
    /\ th[t].pc = "idle"
    /\ c \in 1..Len(caches)
    /\ LET sk == StoreKey(c, k)
           f == [Call("Delete", c, k, Nil, 0) EXCEPT
                    !.pc = "done", !.found = (sk \in DOMAIN store)]
       IN \E err \in DelErrors(store, sk) :
            IF err = IOError
            THEN /\ th' = [th EXCEPT ![t] = [f EXCEPT !.sf = TRUE]]
                 /\ UNCHANGED <<store, evicted, written>>
            ELSE /\ store' = IF err = "nil" THEN RedisDel(store, sk) ELSE store
                 /\ evicted' = evicted \ {sk}
                 /\ written' = written \ {<<c, k>>}
                 /\ th' = [th EXCEPT ![t] = f]
    /\ UNCHANGED <<prov, cfg, caches, configs, registered, pool, bufs, scope>>

\* func (r *redisCache) Exists(k string) bool
Exists(t, c, k) ==
    /\ th[t].pc = "idle"
    /\ c \in 1..Len(caches)
    /\ LET sk == StoreKey(c, k)
           f == [Call("Exists", c, k, Nil, 0) EXCEPT !.pc = "done"]
       IN \E fail \in BOOLEAN :
            th' = [th EXCEPT ![t] =
                      IF fail THEN [f EXCEPT !.ok = FALSE, !.sf = TRUE]
                      ELSE [f EXCEPT !.ok = RedisExists(store, sk)]]
    /\ UNCHANGED <<prov, cfg, caches, configs, registered, store, evicted, written, pool, bufs, scope>>

EmptyStore == [x \in {} |-> Nil]

\* the entries of s written through an instance other than c
OfOthers(s, c) == {x \in DOMAIN s : s[x].gc # c}

\* Flush removing the entries of its own instance only
FlushOwnKeys(t, c) ==
    /\ th[t].pc = "idle"
    /\ c \in 1..Len(caches)
    /\ LET f == [Call("Flush", c, "", Nil, 0) EXCEPT
                    !.pc = "done", !.found = (OfOthers(store, c) # {})]
       IN \E fail \in BOOLEAN :
            IF fail
            THEN /\ th' = [th EXCEPT ![t] = [f EXCEPT !.err = "store", !.sf = TRUE]]
                 /\ UNCHANGED <<store, evicted, written>>
            ELSE /\ store' = [x \in OfOthers(store, c) |-> store[x]]
                 /\ evicted' = {}
                 /\ written' = {w \in written : w[1] # c}
                 /\ th' = [th EXCEPT ![t] = f]
    /\ UNCHANGED <<prov, cfg, caches, configs, registered, pool, bufs, scope>>

\* func (r *redisCache) Flush() error
Flush(t, c) ==
    /\ th[t].pc = "idle"
    /\ c \in 1..Len(caches)
    /\ LET f == [Call("Flush", c, "", Nil, 0) EXCEPT
                    !.pc = "done", !.found = (OfOthers(store, c) # {})]
       IN \E fail \in BOOLEAN :
            IF fail
            THEN /\ th' = [th EXCEPT ![t] = [f EXCEPT !.err = "store", !.sf = TRUE]]
                 /\ UNCHANGED <<store, evicted, written>>
            ELSE /\ store' = EmptyStore
                 /\ evicted' = {}
                 /\ written' = {}
                 /\ th' = [th EXCEPT ![t] = f]
    /\ UNCHANGED <<prov, cfg, caches, configs, registered, pool, bufs, scope>>

\* func (r *redisCache) Flush() of redis.go: the result of FLUSHDB is dropped
FlushV0(t, c) ==
    /\ th[t].pc = "idle"
    /\ c \in 1..Len(caches)
    /\ LET f == [Call("Flush", c, "", Nil, 0) EXCEPT
                    !.pc = "done", !.found = (OfOthers(store, c) # {})]
       IN \E fail \in BOOLEAN :
            IF fail
            THEN /\ th' = [th EXCEPT ![t] = [f EXCEPT !.sf = TRUE]]
                 /\ UNCHANGED <<store, evicted, written>>
            ELSE /\ store' = EmptyStore
                 /\ evicted' = {}
                 /\ written' = {}
                 /\ th' = [th EXCEPT ![t] = f]
    /\ UNCHANGED <<prov, cfg, caches, configs, registered, pool, bufs, scope>>

\* func (r *redisCache) Name() string
Name(t, c) ==
    /\ th[t].pc = "idle"
    /\ c \in 1..Len(caches)
    /\ th' = [th EXCEPT ![t] =
                 [Call("Name", c, "", Nil, 0) EXCEPT !.pc = "done",
                                                     !.name = cfg.Name]]
    /\ UNCHANGED <<prov, cfg, caches, configs, registered, store, evicted, written, pool, bufs, scope>>

\* what another client of the database (the application through
\* Provider.Client(), another process) may store under a key: an empty
\* value, or the entry of a value whose type that process has registered
ForeignPayloads == {<<>>, Encode(Entry(0, SampleV(1)), {TSample})}

\* SET key val, issued by another client of the database
ForeignSet(key, val) ==
    /\ store' = RedisSet(store, key, val, 0, NoGhost)
    /\ evicted' = evicted \ {key}
    /\ UNCHANGED <<prov, cfg, caches, configs, registered, written, pool, bufs,
                   th, scope>>

\* the call has returned and the caller has taken its result
Return(t) ==
    /\ th[t].pc = "done"
    /\ th' = [th EXCEPT ![t] = Idle]
    /\ UNCHANGED <<prov, cfg, caches, configs, registered, store, evicted, written, pool, bufs, scope>>

\* the store's clock advances by one unit
Tick ==
    /\ store' = RedisTick(store)
    /\ evicted' = evicted \cup Expiring(store)
    /\ UNCHANGED <<prov, cfg, caches, configs, registered, written, pool, bufs, th, scope>>

----------------------------------------------------------------------------
(* Specifications *)

Modes == {Fixed, Slide}
\* ttl 0 is "no expiration"; the longest ttl lets a read fall between the
\* write and the expiry
TTLs == {0, MaxTTL}

\* the state after Provider.Init: connected, no cache created, an empty
\* database, an empty pool, gob knowing its basic types only
InitWith(callers, sc) ==
    /\ prov = ReadyProvider
    /\ cfg = NoCfg
    /\ caches = <<>>
    /\ configs = <<>>
    /\ registered = {TInt}
    /\ store = EmptyStore
    /\ evicted = {}
    /\ written = {}
    /\ pool = {}
    /\ bufs = [b \in callers |-> <<>>]
    /\ th = [t \in callers |-> Idle]
    /\ scope = sc

\* the application creates its caches one after the other, once
\* InitProviders has succeeded
DoCreate ==
    /\ prov.state = "ready"
    /\ Len(caches) < Len(scope.names)
    /\ \E m \in Modes : Create(scope.names[Len(caches) + 1], m)

Handles == 1..Len(caches)

DoGet == \E t \in Callers, c \in Handles, k \in scope.keys : Get(t, c, k)
DoGetOrPut ==
    \E t \in Callers, c \in Handles, k \in scope.keys,
       v \in scope.vals, d \in scope.ttls : GetOrPut(t, c, k, v, d)
DoPut ==
    \E t \in Callers, c \in Handles, k \in scope.keys,
       v \in scope.vals, d \in scope.ttls : Put(t, c, k, v, d)
DoDelete == \E t \in Callers, c \in Handles, k \in scope.keys : Delete(t, c, k)
DoExists == \E t \in Callers, c \in Handles, k \in scope.keys : Exists(t, c, k)
DoFlush == \E t \in Callers, c \in Handles : Flush(t, c)
DoName == \E t \in Callers, c \in Handles : Name(t, c)
DoGetExpire == \E t \in Callers : GetExpire(t)
DoGetOrPutPut == \E t \in Callers : GetOrPutPut(t)
DoPutEncode == \E t \in Callers : PutEncode(t)
DoPutSet == \E t \in Callers : PutSet(t)
DoPutRelease == \E t \in Callers : PutRelease(t)
DoReturn == \E t \in Callers : Return(t)

Next ==
    \/ DoCreate
    \/ Register
    \/ Tick
    \/ DoGet
    \/ DoGetExpire
    \/ DoGetOrPut
    \/ DoGetOrPutPut
    \/ DoPut
    \/ DoPutEncode
    \/ DoPutSet
    \/ DoPutRelease
    \/ DoDelete
    \/ DoExists
    \/ DoFlush
    \/ DoName
    \/ DoReturn

\* one caller, two caches (the cache manager refuses a second cache of the
\* same name), one logical key
SeqScope ==
    [names |-> <<"a", "b">>, keys |-> {"k"},
     vals |-> {Nil, IntV(1), SampleV(1)}, ttls |-> TTLs]

Init == InitWith({1}, SeqScope)

Spec == Init /\ [][Next]_vars

\* one caller, two caches whose names and keys hold the separator: the pairs
\* ("a", "b-k") and ("a-b", "k") give one store key
KeysScope ==
    [names |-> <<"a", "a-b">>, keys |-> {"k", "b-k"},
     vals |-> {IntV(1), IntV(2)}, ttls |-> {0}]

InitKeys == InitWith({1}, KeysScope)

SpecKeys == InitKeys /\ [][Next]_vars

\* the state after Provider.Init and the Create of one cache named "a"
InitOneCache(callers, sc) ==
    /\ prov = ReadyProvider
    /\ \E m \in Modes : cfg = [Name |-> "a", EvictionMode |-> m]
    /\ caches = <<[keyPrefix |-> "a-"]>>
    /\ configs = <<cfg>>
    /\ registered = {TInt}
    /\ store = EmptyStore
    /\ evicted = {}
    /\ written = {}
    /\ pool = {}
    /\ bufs = [b \in callers |-> <<>>]
    /\ th = [t \in callers |-> Idle]
    /\ scope = sc

\* two callers, each calling GetOrPut once on the one key of an empty store
RaceScope ==
    [names |-> <<"a">>, keys |-> {"k"},
     vals |-> {Nil, IntV(1), IntV(2), SampleV(1)}, ttls |-> TTLs]

InitRace == InitOneCache({1, 2}, RaceScope)

NextRace ==
    \/ Register
    \/ Tick
    \/ DoGetOrPut
    \/ DoGetExpire
    \/ DoGetOrPutPut
    \/ DoPutEncode
    \/ DoPutSet
    \/ DoPutRelease

SpecRace == InitRace /\ [][NextRace]_vars

\* two callers putting and getting two keys, again and again, within the
\* lifetime of the entries; the type of one value is registered on the way
PoolScope ==
    [names |-> <<"a">>, keys |-> {"k", "j"},
     vals |-> {IntV(1), SampleV(1)}, ttls |-> {MaxTTL}]

InitPool == InitOneCache({1, 2}, PoolScope)

NextPool ==
    \/ Register
    \/ DoPut
    \/ DoPutEncode
    \/ DoPutSet
    \/ DoPutRelease
    \/ DoGet
    \/ DoGetExpire
    \/ DoReturn

SpecPool == InitPool /\ [][NextPool]_vars

\* a provider that has not been initialised yet; the values of
\* cache.<name>.provider tried: spellings of "redis", the "myredis" of the
\* test, a missing key
InitScope ==
    [names |-> <<"a">>, keys |-> {"k"}, vals |-> {IntV(1)}, ttls |-> {0}]

InitNew ==
    /\ prov = NewProvider
    /\ cfg = NoCfg
    /\ caches = <<>>
    /\ configs = <<>>
    /\ registered = {TInt}
    /\ store = EmptyStore
    /\ evicted = {}
    /\ written = {}
    /\ pool = {}
    /\ bufs = [b \in {1} |-> <<>>]
    /\ th = [t \in {1} |-> Idle]
    /\ scope = InitScope

ProviderStrings ==
    {Redis, <<"R", "e", "d", "i", "s">>, <<"R", "E", "D", "I", "S">>,
     <<"m", "y", "r", "e", "d", "i", "s">>, <<"r", "e", "d", "i">>, <<>>}

DoProviderInit ==
    \E s \in ProviderStrings, pingErr \in {"nil", IOError} :
        ProviderInit(s, pingErr)

NextInit ==
    \/ DoProviderInit
    \/ DoCreate
    \/ DoPut
    \/ DoPutEncode
    \/ DoPutSet
    \/ DoPutRelease
    \/ DoGet
    \/ DoGetExpire
    \/ DoExists
    \/ DoDelete
    \/ DoReturn

SpecInit == InitNew /\ [][NextInit]_vars

\* the redisCache of redis.go (import path aahframework.org/cache/redis):
\* its Put, Get and Exists act as the later ones do, its GetOrPut, Delete
\* and Flush return no error.  One caller, one cache.
V0Scope ==
    [names |-> <<"a">>, keys |-> {"k"},
     vals |-> {Nil, IntV(1), SampleV(1)}, ttls |-> TTLs]

InitV0 == InitOneCache({1}, V0Scope)

DoGetOrPutV0 ==
    \E t \in Callers, c \in Handles, k \in scope.keys,
       v \in scope.vals, d \in scope.ttls : GetOrPutV0(t, c, k, v, d)
DoDeleteV0 == \E t \in Callers, c \in Handles, k \in scope.keys : DeleteV0(t, c, k)
DoFlushV0 == \E t \in Callers, c \in Handles : FlushV0(t, c)

NextV0 ==
    \/ Register
    \/ Tick
    \/ DoGet
    \/ DoGetExpire
    \/ DoGetOrPutV0
    \/ DoGetOrPutPut
    \/ DoPut
    \/ DoPutEncode
    \/ DoPutSet
    \/ DoPutRelease
    \/ DoDeleteV0
    \/ DoExists
    \/ DoFlushV0
    \/ DoReturn

SpecV0 == InitV0 /\ [][NextV0]_vars

\* one caller reading and writing one key of a database that another client
\* writes to as well
ReadScope ==
    [names |-> <<"a">>, keys |-> {"k"}, vals |-> {Nil, IntV(1)}, ttls |-> TTLs]

InitRead == InitOneCache({1}, ReadScope)

DoForeignSet ==
    \E c \in Handles, k \in scope.keys, b \in ForeignPayloads :
        ForeignSet(StoreKey(c, k), b)

NextRead ==
    \/ Register
    \/ Tick
    \/ DoForeignSet
    \/ DoGet
    \/ DoGetExpire
    \/ DoExists
    \/ DoPut
    \/ DoPutEncode
    \/ DoPutSet
    \/ DoPutRelease
    \/ DoReturn

SpecRead == InitRead /\ [][NextRead]_vars

\* two callers getting and putting one key with every ttl, while time passes
SlideScope ==
    [names |-> <<"a">>, keys |-> {"k"}, vals |-> {IntV(1), IntV(2)},
     ttls |-> 0..MaxTTL]

InitSlide == InitOneCache({1, 2}, SlideScope)

NextSlide ==
    \/ Tick
    \/ DoGet
    \/ DoGetExpire
    \/ DoPut
    \/ DoPutEncode
    \/ DoPutSet
    \/ DoPutRelease
    \/ DoReturn

SpecSlide == InitSlide /\ [][NextSlide]_vars

----------------------------------------------------------------------------
(* Claims *)

Done(t, op) == th[t].pc = "done" /\ th[t].op = op

\* the entry GET found was written through the caller's own instance under
\* the caller's own logical key
OwnEntry(f) == f.found /\ f.seen.gc = f.c /\ f.seen.gk = f.k

\* C1: round trip.  A Get that finds the entry a Put(k, v, d) of the same
\* instance stored, d > 0 (the Put succeeded, nothing wrote, deleted, flushed
\* or expired the key since), returns v.
C1_RoundTrip ==
    \A t \in Callers :
        (Done(t, "Get") /\ ~th[t].sf /\ OwnEntry(th[t]) /\ th[t].seen.gd > 0)
            => th[t].ret = th[t].seen.gv

C1_Witness ==
    \E t \in Callers :
        /\ Done(t, "Get") /\ ~th[t].sf /\ OwnEntry(th[t]) /\ th[t].seen.gd > 0
        /\ th[t].seen.gv # Nil
        /\ th[t].ret = th[t].seen.gv

C3_Isolation ==
    \A t \in Callers :
        (th[t].op \in {"Get", "GetOrPut"} /\ th[t].found) =>
            ~(/\ configs[th[t].seen.gc].Name # configs[th[t].c].Name
              /\ th[t].seen.gk = th[t].k)

\* a Get through one instance returned a value while the store held what
\* another instance had put under the same logical key
C3_Witness ==
    \E t \in Callers, a \in 1..Len(caches) :
        /\ Done(t, "Get") /\ th[t].hit /\ th[t].ret # Nil
        /\ configs[a].Name # configs[th[t].c].Name
        /\ StoreKey(a, th[t].k) \in DOMAIN store
        /\ store[StoreKey(a, th[t].k)].gc = a
        /\ store[StoreKey(a, th[t].k)].gk = th[t].k
        /\ store[StoreKey(a, th[t].k)].gv # th[t].ret

\* C4 as claimed: key prefixing is free of collisions.  Two instances of
\* different names never build the same store key, whatever the logical keys,
\* and no Get finds an entry written through an instance of another name.
C4_CollisionFree ==
    /\ \A a, b \in 1..Len(caches) : \A ka, kb \in scope.keys :
         configs[a].Name # configs[b].Name => StoreKey(a, ka) # StoreKey(b, kb)
    /\ \A t \in Callers :
         th[t].found => configs[th[t].seen.gc].Name = configs[th[t].c].Name

\* C5 as claimed: every Get applies the eviction mode its instance was
\* created with.
C5_ModePerInstance ==
    \A t \in Callers :
        th[t].applied # "none" => th[t].applied = configs[th[t].c].EvictionMode

\* the second half of caller t's Get takes place in this step
GetExpireStep(t) == th[t].pc = "expire" /\ th'[t].pc # "expire"

\* C6 as claimed: a successful Get through an instance created in slide mode
\* re-arms the ttl of the key to the ttl the entry was put with.
C6_SlideRearms ==
    [][\A t \in Callers :
         (/\ GetExpireStep(t)
          /\ configs[th[t].c].EvictionMode = Slide
          /\ ~th'[t].sf
          /\ th[t].e.D > 0
          /\ StoreKey(th[t].c, th[t].k) \in DOMAIN store)
         => /\ StoreKey(th[t].c, th[t].k) \in DOMAIN store'
            /\ store'[StoreKey(th[t].c, th[t].k)].ttl = th[t].e.D]_vars

\* a step of caller t's Get or Exists
ReadStep(t) ==
    \/ th[t].pc = "idle" /\ th'[t].op \in {"Get", "Exists"}
    \/ th[t].op = "Get" /\ GetExpireStep(t)

\* C7 as claimed: Get and Exists through an instance created in fixed mode
\* leave the store as it is, values and remaining ttls.
C7_FixedReadsKeepStore ==
    [][\A t \in Callers :
         (ReadStep(t) /\ configs[th'[t].c].EvictionMode = Fixed)
            => store' = store]_vars

\* every caller has made its call and the call has returned
AllReturned == \A t \in Callers : th[t].pc = "done"

\* no store command failed, no key left the store by expiry
Undisturbed == evicted = {} /\ \A t \in Callers : ~th[t].sf

\* the store holds one entry, under key sk, and its value is one of the
\* values the callers supplied and the value of the last SET of sk
OneOfAttempted(sk) ==
    /\ DOMAIN store = {sk}
    /\ LET dec == Decode(store[sk].val, registered) IN
         /\ dec.ok
         /\ dec.e.V = store[sk].gv
         /\ \E t \in Callers : th[t].wrote /\ th[t].v = dec.e.V

SetStep(t) == th[t].pc = "set" /\ th'[t].pc = "release" /\ th'[t].wrote

Calls(t, op) == th[t].pc = "idle" /\ th'[t].op = op

\* C11 as claimed: miss semantics.  A Get(k) or Exists(k) on a key that was
\* never put through the instance, or not since the last successful
\* Delete(k) through it (or Flush), returns nil, or false.
C11_MissSemantics ==
    [][\A t \in Callers :
         ((Calls(t, "Get") \/ Calls(t, "Exists"))
              /\ <<th'[t].c, th'[t].k>> \notin written)
            => /\ th'[t].pc = "done"
               /\ th'[t].ret = Nil
               /\ ~th'[t].ok]_vars

\* C12: idempotent delete.  Unless DEL fails with something other than
\* key-not-found, a Delete(k) returns without error and leaves no entry under
\* k; on a key that is absent it leaves the whole store as it is, so that a
\* second Delete(k) changes neither the store nor the result.
C12_IdempotentDelete ==
    [][\A t \in Callers :
         (Calls(t, "Delete") /\ ~th'[t].sf) =>
            /\ th'[t].pc = "done" /\ th'[t].err = "nil"
            /\ StoreKey(th'[t].c, th'[t].k) \notin DOMAIN store'
            /\ StoreKey(th'[t].c, th'[t].k) \notin DOMAIN store
                  => store' = store]_vars

\* a Delete of an absent key returned without error while the store held
\* the entry of another key
C12_Witness ==
    \E t \in Callers :
        /\ Done(t, "Delete") /\ ~th[t].found /\ ~th[t].sf
        /\ th[t].err = "nil"
        /\ DOMAIN store # {}

\* C13: Flush empties the whole database.  A Flush through any instance
\* returns without error unless FLUSHDB fails, and then leaves no entry of
\* any instance; as long as nothing is put after it, every Get returns nil
\* and every Exists false, through every instance.
C13_FlushEmptiesAll ==
    [][\A t \in Callers :
         /\ (Calls(t, "Flush") /\ ~th'[t].sf) =>
               /\ th'[t].pc = "done" /\ th'[t].err = "nil"
               /\ store' = EmptyStore
               /\ written' = {}
         /\ ((Calls(t, "Get") \/ Calls(t, "Exists")) /\ written = {}) =>
               /\ th'[t].pc = "done"
               /\ th'[t].ret = Nil
               /\ ~th'[t].ok]_vars

\* a Flush through one instance has returned without error, the store had
\* held an entry put through another instance, and it is empty
C13_Witness ==
    \E t \in Callers :
        /\ Done(t, "Flush") /\ th[t].found /\ ~th[t].sf
        /\ th[t].err = "nil"
        /\ store = EmptyStore

\* caller t's Put (not the one inside GetOrPut) encodes in this step
PutEncodeStep(t) ==
    th[t].op = "Put" /\ th[t].pc = "encode" /\ th'[t].pc # "encode"

\* the type of v has been handed to gob.Register, or needs not be
Registered(v) == v = Nil \/ v.T \in registered

C15_WriteFailuresSurfaced ==
    \A t \in Callers :
        (th[t].pc = "done" /\ th[t].op \in {"Put", "Delete", "Flush"}
            /\ th[t].sf) => th[t].err # "nil"

\* the payload under the key caller t is about to read does not decode
Undecodable(c, k) ==
    /\ StoreKey(c, k) \in DOMAIN store
    /\ ~Decode(store[StoreKey(c, k)].val, registered).ok

\* C16: read-path failures degrade to a miss.  A Get whose GET fails, or
\* whose payload does not decode, returns nil; an Exists whose EXISTS fails
\* returns false; a Get whose payload decoded returns the decoded value,
\* also when the EXPIRE of slide mode fails; none of them returns an error.
C16_ReadFailuresAreMisses ==
    [][\A t \in Callers :
         /\ (Calls(t, "Get")
               /\ (th'[t].sf \/ Undecodable(th'[t].c, th'[t].k))) =>
               th'[t].pc = "done" /\ th'[t].ret = Nil /\ th'[t].err = "nil"
         /\ (Calls(t, "Exists") /\ th'[t].sf) =>
               th'[t].pc = "done" /\ ~th'[t].ok /\ th'[t].err = "nil"
         /\ (th[t].op = "Get" /\ GetExpireStep(t)) =>
               /\ th'[t].pc = "done" /\ th'[t].err = "nil"
               /\ th'[t].ret = th[t].e.V]_vars

\* a Get has returned nil without error on a payload that did not decode
C16_Witness ==
    \E t \in Callers :
        /\ Done(t, "Get") /\ th[t].found /\ ~th[t].hit /\ ~th[t].sf
        /\ th[t].ret = Nil /\ th[t].err = "nil"

\* a Get in slide mode has returned the stored value although its EXPIRE
\* failed
C16_SlideWitness ==
    \E t \in Callers :
        /\ Done(t, "Get") /\ th[t].hit /\ th[t].sf /\ th[t].applied = Slide
        /\ th[t].ret = IntV(1) /\ th[t].err = "nil"

\* the Get inside caller t's GetOrPut returned nil: a miss, a failed GET, a
\* payload that did not decode, or a stored nil
GotNil(t) == ~th[t].hit \/ th[t].e.V = Nil

\* C17 as claimed: GetOrPut error propagation.  A GetOrPut returns an error
\* exactly when its Get returned nil and its Put failed (to encode, or to
\* SET), and then it returns no value; otherwise it returns, without error,
\* the value Get returned or, after a successful Put, the supplied value.
C17_GetOrPutErrors ==
    \A t \in Callers :
        (th[t].pc = "done" /\ th[t].op \in GetOrPuts) =>
            /\ th[t].err # "nil" <=> (GotNil(t) /\ ~th[t].wrote)
            /\ th[t].err # "nil" => th[t].ret = Nil
            /\ th[t].err = "nil" =>
                  th[t].ret = IF GotNil(t) THEN th[t].v ELSE th[t].e.V

\* C18 as claimed: Name() is stable per instance.  Every Name() through an
\* instance returns the name the instance was created with, whatever caches
\* the provider has created since.
C18_NameStable ==
    \A t \in Callers :
        Done(t, "Name") => th[t].name = configs[th[t].c].Name

\* the spellings of "redis" among the provider strings tried
RedisSpellings ==
    {<<"r", "e", "d", "i", "s">>, <<"R", "e", "d", "i", "s">>,
     <<"R", "E", "D", "I", "S">>}

\* C19: initialisation fails fast.  Once Init has returned: if the provider
\* string is no spelling of "redis", Init returned an error and sent no
\* ping; if it is one, Init sent one ping and returned an error when the
\* ping failed; Init returned no error only after an answered ping.  No
\* cache exists and no cache operation runs unless Init succeeded.
C19_InitFailsFast ==
    /\ (prov.state # "new" /\ prov.provider \notin RedisSpellings) =>
          prov.state = "failed" /\ prov.err = "provider" /\ prov.pings = 0
    /\ (prov.state # "new" /\ prov.provider \in RedisSpellings) =>
          /\ prov.pings = 1
          /\ ~prov.pong => prov.state = "failed" /\ prov.err = "ping"
          /\ prov.pong => prov.state = "ready" /\ prov.err = "nil"
    /\ prov.state = "ready" => prov.pong /\ prov.err = "nil"
    /\ prov.state = "failed" => prov.err # "nil"
    /\ (caches # <<>> \/ store # EmptyStore
           \/ \E t \in Callers : th[t].pc # "idle")
          => prov.state = "ready" /\ prov.pong

\* Init has succeeded on the provider string "REDIS" after one answered
\* ping, and a cache has stored an entry
C19_Witness ==
    /\ prov.state = "ready" /\ prov.provider = <<"R", "E", "D", "I", "S">>
    /\ prov.pings = 1 /\ prov.pong
    /\ store # EmptyStore

\* Init has failed on the provider string "myredis" without a ping
C19_RefusedWitness ==
    /\ prov.state = "failed" /\ prov.provider = <<"m", "y", "r", "e", "d", "i", "s">>
    /\ prov.pings = 0

\* caller t's Put (alone or inside GetOrPut) acquires its buffer in this step
AcquireStep(t) == th[t].pc \in {"idle", "acquire"} /\ th'[t].pc = "encode"

\* C20: buffer-pool discipline.  Every buffer lying in the pool is empty and
\* held by no caller; the buffer acquireBuffer hands to a Put is empty; a Put
\* that fails to encode drops its buffer without returning it to the pool; a
\* Put reaches releaseBuffer only from its SET, and then its buffer lies in
\* the pool, cleared; either way the Put holds no buffer after it returned.
C20_PoolDiscipline ==
    [][/\ \A b \in pool' : bufs'[b] = <<>> /\ \A t \in Callers : th'[t].buf # b
       /\ \A t \in Callers :
            /\ AcquireStep(t) =>
                  th'[t].buf \in Buffers /\ bufs'[th'[t].buf] = <<>>
            /\ (th[t].pc = "encode" /\ th'[t].pc = "done") =>
                  /\ th'[t].buf = 0
                  /\ th[t].buf \notin pool'
                  /\ pool' = pool
            /\ (th[t].pc # "release" /\ th'[t].pc = "release") =>
                  th[t].pc = "set"
            /\ (th[t].pc = "release" /\ th'[t].pc # "release") =>
                  /\ th'[t].pc = "done" /\ th'[t].buf = 0
                  /\ th[t].buf \in pool'
                  /\ bufs'[th[t].buf] = <<>>
            /\ th'[t].pc \in {"idle", "done"} => th'[t].buf = 0]_vars

\* a Put has failed to encode and dropped its buffer; since then a buffer
\* was released and lies in the pool, cleared, and another Put has acquired
\* the other buffer, empty
C20_Witness ==
    \E t \in Callers, b \in Buffers :
        /\ th[t].op = "Put" /\ th[t].pc = "encode"
        /\ bufs[th[t].buf] = <<>>
        /\ b # th[t].buf /\ b \in pool /\ bufs[b] = <<>>
        /\ \E u \in Callers : u # t /\ Done(u, "Put") /\ th[u].err = "encode"

\* a buffer dropped on the encode-error path keeps its partial content
C20_DroppedWitness ==
    \E b \in Buffers : ~Held(b) /\ b \notin pool /\ bufs[b] = <<WireType>>

\* C21 as claimed: ttl and payload agree.  For every key in the store, the
\* ttl armed last on it (by a Put's SET or a Get's EXPIRE) is the ttl its
\* payload records, under every interleaving of Gets and Puts.
C21_TTLMatchesPayload ==
    \A sk \in DOMAIN store :
        LET dec == Decode(store[sk].val, registered) IN
        dec.ok => store[sk].armed = dec.e.D

\* a remaining lifetime a is not shorter than b (0: no expiration)
NotShorter(a, b) == a = 0 \/ (b # 0 /\ a >= b)

\* C22 as claimed: a successful read never evicts.  When a Get returns a
\* value and the entry is in the store as the Get ends, the entry is still
\* there afterwards (an Exists would return true), with a remaining lifetime
\* not shorter than before, in both eviction modes and for every ttl, 0 too.
C22_ReadNeverEvicts ==
    [][\A t \in Callers :
         (/\ th[t].op = "Get" /\ GetExpireStep(t)
          /\ th'[t].ret # Nil
          /\ StoreKey(th[t].c, th[t].k) \in DOMAIN store)
         => /\ StoreKey(th[t].c, th[t].k) \in DOMAIN store'
            /\ NotShorter(store'[StoreKey(th[t].c, th[t].k)].ttl,
                          store[StoreKey(th[t].c, th[t].k)].ttl)]_vars

\* C23 as claimed: Exists and Get agree.  With no store failure, a Get(k)
\* returns a value exactly when an Exists(k) on the same store state returns
\* true, for every entry a Put stored, an entry with a nil value too; and a
\* GetOrPut goes on to its Put only when the key was not in the store.
C23_ExistsAgreesWithGet ==
    [][\A t \in Callers :
         /\ (Calls(t, "Get") /\ ~th'[t].sf) =>
               (RedisExists(store, StoreKey(th'[t].c, th'[t].k))
                  <=> (th'[t].pc = "expire" /\ th'[t].e.V # Nil))
         /\ (th'[t].op = "GetOrPut" /\ th[t].pc \in {"idle", "expire"}
                /\ th'[t].pc = "acquire" /\ ~th'[t].sf)
               => ~th'[t].found]_vars

====
